---- MODULE Spec2Model ----
(***************************************************************************)
(* A model of the upload service of server-playground.                     *)
(*                                                                         *)
(*   upload/upload.go      the upload API endpoint: method gating, the     *)
(*                         form path, the raw-body path, persistence       *)
(*   response/response.go  the JSON response DTO and its error writer      *)
(*                                                                         *)
(* Strings the code inspects (Content-Type values, file extensions) are    *)
(* sequences of one-character strings, so that HasPrefix, HasSuffix,       *)
(* SplitAfter and the media type parser are computed character by          *)
(* character.  Every request is served by its own goroutine; the steps of  *)
(* a request that touch the file system (Stat, Mkdir, OpenFile, Copy) are  *)
(* separate actions, so that two requests interleave at those points.      *)
(***************************************************************************)
EXTENDS Integers, Sequences, FiniteSets, TLC

(***************************************************************************)
(* Bounds of the model.                                                    *)
(***************************************************************************)
\* Requests received in one behaviour, over all connections.
MaxRequests == 2
\* Length of the message and error strings of a DTO that is serialized.
MaxStrLen == 1
\* Length of the name and MIME type strings of a serialized FileDto.
MaxFileStrLen == 1
\* Length of the error string response.Error is called with.
MaxErrorLen == 2
\* Pieces (separators, dots, stems, extensions) a raw file name is made of.
MaxNameParts == 3

\* The goroutines serving connections (net/http starts one per connection).
Procs == {"g1", "g2"}

(***************************************************************************)
(* Constants of upload.go.                                                 *)
(***************************************************************************)
uploadDir == "./files/"
formName == "file"

StatusContinue == 100
StatusCreated == 201
StatusBadRequest == 400
StatusMethodNotAllowed == 405
StatusUnsupportedMediaType == 415
StatusInternalServerError == 500
StatusNetworkAuthenticationRequired == 511

(***************************************************************************)
(* Error values.  nil is the absence of an error.                          *)
(***************************************************************************)
nil == "nil"
ErrNotMultipart == "request Content-Type isn't multipart/form-data"
ErrMissingBoundary == "no multipart boundary param in Content-Type"
ErrMissingFile == "http: no such file"
ErrNotSupported == "feature not supported"
ErrNextPartEOF == "multipart: NextPart: EOF"
ErrNoMediaType == "mime: no media type"
ErrExpectedSlash == "mime: expected slash after first token"
ErrExpectedToken == "mime: expected token after slash"
ErrUnexpectedContent == "mime: unexpected content after media subtype"
ErrInvalidMediaParameter == "mime: invalid media parameter"
\* Errors of the file system calls.
EEXIST == "mkdir ./files/: file exists"
EACCES == "permission denied"
EIO == "input/output error"
ENOENT == "no such file or directory"

(***************************************************************************)
(* String helpers (package strings), on sequences of characters.           *)
(***************************************************************************)
HasPrefix(s, prefix) ==
    /\ Len(prefix) <= Len(s)
    /\ SubSeq(s, 1, Len(prefix)) = prefix

HasSuffix(s, suffix) ==
    /\ Len(suffix) <= Len(s)
    /\ SubSeq(s, Len(s) - Len(suffix) + 1, Len(s)) = suffix

\* The index of the first occurrence of character c in s, 0 when absent.
IndexByte(s, c) ==
    IF \E i \in 1..Len(s) : s[i] = c
    THEN CHOOSE i \in 1..Len(s) : s[i] = c /\ \A j \in 1..(i - 1) : s[j] # c
    ELSE 0

RECURSIVE TrimLeft(_)
TrimLeft(s) ==
    IF s # <<>> /\ s[1] = " " THEN TrimLeft(Tail(s)) ELSE s

RECURSIVE TrimRight(_)
TrimRight(s) ==
    IF s # <<>> /\ s[Len(s)] = " " THEN TrimRight(SubSeq(s, 1, Len(s) - 1)) ELSE s

TrimSpace(s) == TrimRight(TrimLeft(s))

\* strings.SplitAfter(s, sep) for a one-character sep: the pieces of s, each
\* but the last ending with sep.
RECURSIVE SplitAfter(_, _)
SplitAfter(s, sep) ==
    LET split(i) ==
            IF i = 0 THEN <<s>>
            ELSE <<SubSeq(s, 1, i)>> \o SplitAfter(SubSeq(s, i + 1, Len(s)), sep)
    IN  split(IndexByte(s, sep))

\* The Go string a sequence of characters stands for.
RECURSIVE Str(_)
Str(s) == IF s = <<>> THEN "" ELSE s[1] \o Str(Tail(s))

(***************************************************************************)
(* Package mime: media type parsing.                                       *)
(***************************************************************************)
\* Characters that end a token (RFC 2045 tspecials and the space).
Separators == {" ", "/", ";", "=", ",", ":", "\"", "(", ")", "<", ">", "@", "[", "]", "?", "\\"}

IsTokenChar(c) == c \notin Separators

\* consumeToken: the length of the longest prefix of s made of token characters.
RECURSIVE TokenLen(_)
TokenLen(s) ==
    IF s # <<>> /\ IsTokenChar(s[1]) THEN 1 + TokenLen(Tail(s)) ELSE 0

\* checkMediaTypeDisposition: token [ "/" token ], nothing after it.
checkMediaTypeDisposition(s) ==
    LET subtype(sub, m) ==
            IF m = 0 THEN ErrExpectedToken
            ELSE IF m < Len(sub) THEN ErrUnexpectedContent
            ELSE nil
        afterType(n, rest) ==
            IF n = 0 THEN ErrNoMediaType
            ELSE IF rest = <<>> THEN nil
            ELSE IF rest[1] # "/" THEN ErrExpectedSlash
            ELSE subtype(Tail(rest), TokenLen(Tail(rest)))
        type(n) == afterType(n, SubSeq(s, n + 1, Len(s)))
    IN  type(TokenLen(s))

\* consumeMediaParam: one ";key=value" at the head of v.  key is empty when
\* v does not start with a parameter.  (Quoted values are not modelled: no
\* Content-Type of the model carries one.)
consumeMediaParam(v) ==
    LET none == [key |-> <<>>, value |-> <<>>, rest |-> v]
        value(key, r3, vn) ==
            IF vn = 0 THEN none
            ELSE [key |-> key, value |-> SubSeq(r3, 1, vn), rest |-> SubSeq(r3, vn + 1, Len(r3))]
        afterEquals(key, r3) == value(key, r3, TokenLen(r3))
        afterKey(key, r2) ==
            IF r2 = <<>> \/ r2[1] # "=" THEN none
            ELSE afterEquals(key, TrimLeft(Tail(r2)))
        param(r1, kn) ==
            IF kn = 0 THEN none
            ELSE afterKey(SubSeq(r1, 1, kn), TrimLeft(SubSeq(r1, kn + 1, Len(r1))))
        afterSemicolon(r1) == param(r1, TokenLen(r1))
        start(r0) ==
            IF r0 = <<>> \/ r0[1] # ";" THEN none
            ELSE afterSemicolon(TrimLeft(Tail(r0)))
    IN  start(TrimLeft(v))

\* The parameter loop of ParseMediaType: the parameters of v as a set of
\* <<key, value>> pairs, or ErrInvalidMediaParameter.
RECURSIVE parseParams(_, _)
parseParams(v, params) ==
    LET next(t, p) ==
            IF t = <<>> THEN [params |-> params, err |-> nil]
            ELSE IF p.key = <<>>
                 THEN IF TrimSpace(p.rest) = <<";">>
                      THEN [params |-> params, err |-> nil]
                      ELSE [params |-> {}, err |-> ErrInvalidMediaParameter]
            ELSE IF \E q \in params : q[1] = p.key
                 THEN [params |-> {}, err |-> ErrInvalidMediaParameter]
            ELSE parseParams(p.rest, params \cup {<<p.key, p.value>>})
        trimmed(t) == next(t, consumeMediaParam(t))
    IN  trimmed(TrimLeft(v))

\* mime.ParseMediaType.  (strings.ToLower is not modelled: every
\* Content-Type of the model is lower case.)
ParseMediaType(v) ==
    LET result(mediatype, e, ps) ==
            IF e # nil THEN [mediatype |-> <<>>, params |-> {}, err |-> e]
            ELSE IF ps.err # nil THEN [mediatype |-> mediatype, params |-> {}, err |-> ps.err]
            ELSE [mediatype |-> mediatype, params |-> ps.params, err |-> nil]
        checked(base, mediatype) ==
            result(mediatype, checkMediaTypeDisposition(mediatype),
                   parseParams(SubSeq(v, Len(base) + 1, Len(v)), {}))
        cut(base) == checked(base, TrimSpace(base))
        index(i) == cut(IF i = 0 THEN v ELSE SubSeq(v, 1, i - 1))
    IN  index(IndexByte(v, ";"))

(***************************************************************************)
(* The requests of the model.                                              *)
(***************************************************************************)
multipartFormData ==
    <<"m", "u", "l", "t", "i", "p", "a", "r", "t", "/", "f", "o", "r", "m", "-", "d", "a", "t", "a">>
textPlain == <<"t", "e", "x", "t", "/", "p", "l", "a", "i", "n">>
imageJpeg == <<"i", "m", "a", "g", "e", "/", "j", "p", "e", "g">>

\* Content-Type values: absent, text/plain with and without a parameter, a
\* type with several extensions, a well-formed type no table knows, a
\* malformed type, multipart/form-data with a boundary, without one, and a
\* value that only starts with multipart/form-data.
ctEmpty == <<>>
ctTextPlain == textPlain
ctTextPlainCharset ==
    textPlain \o <<";", " ", "c", "h", "a", "r", "s", "e", "t", "=", "u", "t", "f", "-", "8">>
ctImageJpeg == imageJpeg
ctImageJpegCharset ==
    imageJpeg \o <<";", " ", "c", "h", "a", "r", "s", "e", "t", "=", "u", "t", "f", "-", "8">>
ctUnknown == <<"x", "/", "y">>
ctMalformed == <<"t", "e", "x", "t", "/">>
ctMultipart == multipartFormData \o <<";", " ", "b", "o", "u", "n", "d", "a", "r", "y", "=", "b">>
ctMultipartNoBoundary == multipartFormData
ctMultipartX == multipartFormData \o <<"x">>

ContentTypes ==
    {ctEmpty, ctTextPlain, ctTextPlainCharset, ctImageJpeg, ctImageJpegCharset, ctUnknown,
     ctMalformed, ctMultipart, ctMultipartNoBoundary, ctMultipartX}

Methods == {"GET", "PUT", "POST"}

\* A multipart body with the boundary b and one part, as the sequence
\* delimiter, field name, file name, content bytes, closing delimiter.
FormBody(field, fileName, content) ==
    <<"--b", field, fileName>> \o content \o <<"--b--">>

\* Request bodies: raw bytes, a form whose file part is long, the same with
\* a shorter content, and a form whose only part is another field.
rawBody == <<"p", "q">>
formLong == FormBody(formName, "test.txt", <<"h", "i">>)
formShort == FormBody(formName, "test.txt", <<"o">>)
formOther == FormBody("other", "test.txt", <<"o">>)

\* The headers and bodies of the requests: every body under the multipart
\* Content-Type, a form under the two defective ones, raw bytes under every
\* other one, and a form sent as text/plain.
Payloads ==
    ({ctMultipart} \X {formLong, formShort, formOther, rawBody})
        \cup ({ctMultipartNoBoundary, ctMultipartX} \X {formLong})
        \cup ((ContentTypes \ {ctMultipart, ctMultipartNoBoundary, ctMultipartX}) \X {rawBody})
        \cup {<<ctTextPlain, formLong>>}

Requests ==
    {[method |-> m, contentType |-> pl[1], body |-> pl[2]] : m \in Methods, pl \in Payloads}

(***************************************************************************)
(* Package mime: the extension table.                                      *)
(***************************************************************************)
dotAsc == <<".", "a", "s", "c">>
dotTxt == <<".", "t", "x", "t">>
dotJpe == <<".", "j", "p", "e">>
dotJpeg == <<".", "j", "p", "e", "g">>
dotJpg == <<".", "j", "p", "g">>

\* The table of a host without a MIME database (Go's built-in types, which
\* have no text/plain entry) and of a host with one (/etc/mime.types lists
\* asc and txt for text/plain).  Each list is sorted, as ExtensionsByType
\* returns it.
builtinTable == (imageJpeg :> <<dotJpeg, dotJpg>>)
systemTable == (imageJpeg :> <<dotJpe, dotJpeg, dotJpg>>) @@ (textPlain :> <<dotAsc, dotTxt>>)
MimeTables == {builtinTable, systemTable}

\* mime.ExtensionsByType(typ) on the table of the host.
ExtensionsByType(table, typ) ==
    LET lookup(p) ==
            IF p.err # nil THEN [exts |-> <<>>, err |-> p.err]
            ELSE IF p.mediatype \notin DOMAIN table THEN [exts |-> <<>>, err |-> nil]
            ELSE [exts |-> table[p.mediatype], err |-> nil]
    IN  lookup(ParseMediaType(typ))

(***************************************************************************)
(* Package net/http: multipart forms.                                      *)
(***************************************************************************)
\* Request.multipartReader: the boundary of the request, or why it is no
\* multipart request.
multipartReader(r) ==
    LET boundary == <<"b", "o", "u", "n", "d", "a", "r", "y">>
        reader(p) ==
            IF r.contentType = <<>> THEN [boundary |-> <<>>, err |-> ErrNotMultipart]
            ELSE IF p.err # nil \/ p.mediatype # multipartFormData
                 THEN [boundary |-> <<>>, err |-> ErrNotMultipart]
            ELSE IF ~ \E q \in p.params : q[1] = boundary
                 THEN [boundary |-> <<>>, err |-> ErrMissingBoundary]
            ELSE [boundary |-> (CHOOSE q \in p.params : q[1] = boundary)[2], err |-> nil]
    IN  reader(ParseMediaType(r.contentType))

\* Request.ParseMultipartForm: the file parts of the body by field name.
ParseMultipartForm(r) ==
    LET form(mr, b, delim) ==
            IF mr.err # nil THEN [file |-> <<>>, err |-> mr.err]
            ELSE IF Len(b) < 4 \/ b[1] # delim \/ b[Len(b)] # delim \o "--"
                 THEN [file |-> <<>>, err |-> ErrNextPartEOF]
            ELSE [file |-> <<[field |-> b[2], Filename |-> b[3],
                              content |-> SubSeq(b, 4, Len(b) - 1)]>>,
                  err |-> nil]
        read(mr) == form(mr, r.body, "--" \o Str(mr.boundary))
    IN  read(multipartReader(r))

\* Request.FormFile(key): the first file part of the parsed form under key.
FormFile(form, key) ==
    LET first(i) ==
            [content |-> form.file[i].content, Filename |-> form.file[i].Filename, err |-> nil]
    IN  IF \E i \in 1..Len(form.file) : form.file[i].field = key
        THEN first(CHOOSE i \in 1..Len(form.file) :
                      /\ form.file[i].field = key
                      /\ \A j \in 1..(i - 1) : form.file[j].field # key)
        ELSE [content |-> <<>>, Filename |-> "", err |-> ErrMissingFile]

(***************************************************************************)
(* Package net/http: the response.                                         *)
(***************************************************************************)
\* A ResponseWriter: the Content-Type header, the WriteHeader calls in
\* order (the first one is the status the client receives), and the writes
\* to the body in order.
NewResponse == [contentType |-> "", codes |-> <<>>, body |-> <<>>]

WriteHeader(w, code) == [w EXCEPT !.codes = Append(@, code)]

\* http.Error: sets the plain-text headers (they take effect only before
\* the first WriteHeader), the status code, and prints the message.
httpError(w, error, code) ==
    [contentType |-> IF w.codes = <<>> THEN "text/plain; charset=utf-8" ELSE w.contentType,
     codes |-> Append(w.codes, code),
     body |-> Append(w.body, <<error, "\n">>)]

\* The status code the client receives.
Status(w) == IF w.codes = <<>> THEN 0 ELSE w.codes[1]

\* The bytes of a response body: its writes, one after the other.
RECURSIVE Flatten(_)
Flatten(writes) == IF writes = <<>> THEN <<>> ELSE writes[1] \o Flatten(Tail(writes))

(***************************************************************************)
(* upload.go: the handlers, up to their first file system call.            *)
(***************************************************************************)
\* ApiEndpoint without the switch: every method is handled as a POST.
ApiEndpointAnyMethod(method) == "handlePost"

\* ApiEndpoint: the switch on r.Method.
ApiEndpoint(method) ==
    IF method = "POST" THEN "handlePost" ELSE "default"

\* handleForm without the return of lines 70-73: a form that lacks the file
\* field is handed to handleFile.
handleFormMissingFileStored(w, r) ==
    LET return(w1, err) ==
            [w |-> w1, err |-> err, call |-> "return", path |-> "", container |-> <<>>,
             ext |-> <<>>, uuid |-> ""]
        file(pe, ff) ==
            IF ~ HasPrefix(r.contentType, multipartFormData) THEN return(w, ErrNotMultipart)
            ELSE IF pe.err # nil THEN return(httpError(w, pe.err, StatusBadRequest), pe.err)
            ELSE [w |-> w, err |-> nil, call |-> "handleFile",
                  path |-> uploadDir \o ff.Filename, container |-> ff.content, ext |-> <<>>,
                  uuid |-> ""]
        parsed(pe) == file(pe, FormFile(pe, formName))
    IN  parsed(ParseMultipartForm(r))

\* handleForm, lines 57-75.  call = "handleFile": the handler goes on to
\* handleFile(w, path, container); call = "return": it has returned err.
handleForm(w, r) ==
    LET return(w1, err) ==
            [w |-> w1, err |-> err, call |-> "return", path |-> "", container |-> <<>>,
             ext |-> <<>>, uuid |-> ""]
        file(pe, ff) ==
            IF ~ HasPrefix(r.contentType, multipartFormData) THEN return(w, ErrNotMultipart)
            ELSE IF pe.err # nil THEN return(httpError(w, pe.err, StatusBadRequest), pe.err)
            ELSE IF ff.err # nil
                 THEN return(httpError(w, ff.err, StatusInternalServerError), ff.err)
            ELSE [w |-> w, err |-> nil, call |-> "handleFile",
                  path |-> uploadDir \o ff.Filename, container |-> ff.content, ext |-> <<>>,
                  uuid |-> ""]
        parsed(pe) == file(pe, FormFile(pe, formName))
    IN  parsed(ParseMultipartForm(r))

\* chooseExt falling back to the last candidate instead of the first.
chooseExtLast(contentType, typeCandidates) ==
    IF Len(typeCandidates) = 0 THEN <<>> ELSE typeCandidates[Len(typeCandidates)]

\* handleOther, lines 102-116: the extension for the declared Content-Type
\* among the candidates registered for it: the first one that ends with
\* what follows the slash of the Content-Type, else the first one.
chooseExt(contentType, typeCandidates) ==
    LET first(matches) ==
            IF matches # {}
            THEN typeCandidates[CHOOSE i \in matches : \A j \in matches : i <= j]
            ELSE typeCandidates[1]
        loop(preferred) ==
            first({i \in 1..Len(typeCandidates) : HasSuffix(typeCandidates[i], preferred)})
    IN  IF Len(typeCandidates) = 0 THEN <<>>
        ELSE loop(SplitAfter(contentType, "/")[2])

\* handleOther without the guard of lines 87-89: a multipart/form-data
\* Content-Type is handled like any other.
handleOtherUnguarded(w, r, table, uuid) ==
    LET return(w1, err) ==
            [w |-> w1, err |-> err, call |-> "return", path |-> "", container |-> <<>>,
             ext |-> <<>>, uuid |-> ""]
        write(ext) ==
            [w |-> w, err |-> nil, call |-> "handleFile",
             path |-> uploadDir \o uuid \o Str(ext), container |-> r.body, ext |-> ext,
             uuid |-> uuid]
        typed(tc) ==
            IF tc.err # nil
            THEN return(httpError(w, tc.err, StatusInternalServerError), tc.err)
            ELSE write(chooseExt(r.contentType, tc.exts))
    IN  typed(ExtensionsByType(table, r.contentType))

\* handleOther, lines 84-119, with the UUID the request draws.
handleOther(w, r, table, uuid) ==
    LET return(w1, err) ==
            [w |-> w1, err |-> err, call |-> "return", path |-> "", container |-> <<>>,
             ext |-> <<>>, uuid |-> ""]
        write(ext) ==
            [w |-> w, err |-> nil, call |-> "handleFile",
             path |-> uploadDir \o uuid \o Str(ext), container |-> r.body, ext |-> ext,
             uuid |-> uuid]
        typed(tc) ==
            IF HasPrefix(r.contentType, multipartFormData) THEN return(w, ErrNotSupported)
            ELSE IF tc.err # nil
                 THEN return(httpError(w, tc.err, StatusInternalServerError), tc.err)
            ELSE write(chooseExt(r.contentType, tc.exts))
    IN  typed(ExtensionsByType(table, r.contentType))

\* What handlePost does with the error handleOther returned.
afterOther(w, err) ==
    IF err # nil /\ err = ErrNotSupported
    THEN httpError(w, err, StatusUnsupportedMediaType)
    ELSE w

\* Whether handlePost returns after handleForm returned err.
returnsAfterForm(err) == err = nil \/ (err # nil /\ err # ErrNotMultipart)

\* handlePost, lines 45-54, up to the first file system call: the handler
\* that is running (via), and what it has done.
handlePost(w, r, table, uuid) ==
    LET other(o) ==
            IF o.call = "handleFile" THEN [via |-> "handleOther"] @@ o
            ELSE [via |-> "handleOther"] @@ [o EXCEPT !.w = afterOther(o.w, o.err)]
        form(f) ==
            IF f.call = "handleFile" THEN [via |-> "handleForm"] @@ f
            ELSE IF returnsAfterForm(f.err) THEN [via |-> "handleForm"] @@ f
            ELSE other(handleOther(f.w, r, table, uuid))
    IN  form(handleForm(w, r))

\* handlePost, once handleFile has returned err to the handler via, which
\* returns it to handlePost.  The errors of handleFile are those of the
\* file system calls: none is ErrNotMultipart or ErrNotSupported.
handlePostReturn(w, via, err) ==
    IF via = "handleForm" THEN w ELSE afterOther(w, err)

(***************************************************************************)
(* upload.go: the file system calls.                                       *)
(***************************************************************************)
\* createUploadDir without the check: the directory is always created.
statIsNotExistAlways(exists) == TRUE

\* os.IsNotExist(err) for the error of os.Stat(uploadDir), line 155.
statIsNotExist(exists) == ~ exists

\* os.Mkdir(uploadDir), line 156; fault: the host refuses it.
Mkdir(exists, fault) ==
    IF fault THEN EACCES ELSE IF exists THEN EEXIST ELSE nil

\* os.OpenFile(filePath, O_WRONLY|O_CREATE), line 137: the files after a
\* successful call.  An existing file keeps its content.
OpenFile(fs, filePath) ==
    IF filePath \in DOMAIN fs THEN fs ELSE fs @@ (filePath :> <<>>)

\* io.Copy(f, container), line 144, having written the first n bytes of the
\* container from offset 0 of a file that held old.
Copy(old, container, n) ==
    SubSeq(container, 1, n) \o SubSeq(old, n + 1, Len(old))

(***************************************************************************)
(* The state.                                                              *)
(***************************************************************************)
VARIABLES
    mimeTable,  \* the extension table of the host (package mime)
    dirExists,  \* whether uploadDir exists
    files,      \* the files under uploadDir: path -> content
    received,   \* the number of requests received
    uuids,      \* the number of UUIDs drawn
    pc,         \* per goroutine: where it is in its request
    req,        \* per goroutine: its request
    resp,       \* per goroutine: the ResponseWriter w of its request
    loc         \* per goroutine: the locals of the handlers

serverVars == <<mimeTable, dirExists, files, received, uuids, pc, req, resp, loc>>

NoRequest == [method |-> "", contentType |-> <<>>, body |-> <<>>]
NoLocals ==
    [via |-> "", path |-> "", container |-> <<>>, ext |-> <<>>, uuid |-> "",
     notExist |-> FALSE, err |-> nil]

\* uuid.NewString(): the n-th UUID drawn, a name no other request draws.
NewUuid(n) == "uuid" \o ToString(n)

InitServer ==
    /\ mimeTable \in MimeTables
    /\ dirExists = FALSE
    /\ files = << >>
    /\ received = 0
    /\ uuids = 0
    /\ pc = [p \in Procs |-> "idle"]
    /\ req = [p \in Procs |-> NoRequest]
    /\ resp = [p \in Procs |-> NewResponse]
    /\ loc = [p \in Procs |-> NoLocals]

\* A connection delivers request r to goroutine p.
Receive(p, r) ==
    /\ pc[p] \in {"idle", "done"}
    /\ received < MaxRequests
    /\ received' = received + 1
    /\ req' = [req EXCEPT ![p] = r]
    /\ resp' = [resp EXCEPT ![p] = NewResponse]
    /\ loc' = [loc EXCEPT ![p] = NoLocals]
    /\ pc' = [pc EXCEPT ![p] = "ApiEndpoint"]
    /\ UNCHANGED <<mimeTable, dirExists, files, uuids>>

\* ApiEndpoint and, for a POST, handlePost up to the call of handleFile.
Serve(p) ==
    LET post(h) ==
            /\ resp' = [resp EXCEPT ![p] = h.w]
            /\ loc' = [loc EXCEPT ![p] =
                          [via |-> h.via, path |-> h.path, container |-> h.container,
                           ext |-> h.ext, uuid |-> h.uuid, notExist |-> FALSE, err |-> h.err]]
            /\ pc' = [pc EXCEPT ![p] =
                          IF h.call = "handleFile" THEN "createUploadDir" ELSE "done"]
            /\ uuids' = IF h.uuid # "" THEN uuids + 1 ELSE uuids
    IN  /\ pc[p] = "ApiEndpoint"
        /\ IF ApiEndpoint(req[p].method) = "handlePost"
           THEN post(handlePost(resp[p], req[p], mimeTable, NewUuid(uuids + 1)))
           ELSE /\ resp' = [resp EXCEPT ![p] =
                               httpError(@, "method not allowed", StatusMethodNotAllowed)]
                /\ pc' = [pc EXCEPT ![p] = "done"]
                /\ UNCHANGED <<loc, uuids>>
        /\ UNCHANGED <<mimeTable, dirExists, files, received, req>>

\* handleFile returns err: it has written the error, and the handlers
\* return it up to handlePost.
Fail(p, err) ==
    /\ resp' = [resp EXCEPT ![p] =
                   handlePostReturn(httpError(@, err, StatusInternalServerError),
                                    loc[p].via, err)]
    /\ loc' = [loc EXCEPT ![p].err = err]
    /\ pc' = [pc EXCEPT ![p] = "done"]

\* createUploadDir, line 155: os.Stat(uploadDir).
Stat(p) ==
    /\ pc[p] = "createUploadDir"
    /\ loc' = [loc EXCEPT ![p].notExist = statIsNotExist(dirExists)]
    /\ pc' = [pc EXCEPT ![p] = IF statIsNotExist(dirExists) THEN "Mkdir" ELSE "OpenFile"]
    /\ UNCHANGED <<mimeTable, dirExists, files, received, uuids, req, resp>>

\* createUploadDir, lines 156-159: os.Mkdir(uploadDir).
MkdirStep(p) ==
    LET made(err) ==
            IF err = nil
            THEN /\ dirExists' = TRUE
                 /\ pc' = [pc EXCEPT ![p] = "OpenFile"]
                 /\ UNCHANGED <<resp, loc>>
            ELSE /\ Fail(p, err)
                 /\ UNCHANGED dirExists
    IN  /\ pc[p] = "Mkdir"
        /\ \E fault \in BOOLEAN : made(Mkdir(dirExists, fault))
        /\ UNCHANGED <<mimeTable, files, received, uuids, req>>

\* handleFile, lines 137-141: os.OpenFile; it fails when the host refuses
\* it or the directory is missing.
OpenFileStep(p) ==
    /\ pc[p] = "OpenFile"
    /\ \E fault \in BOOLEAN :
          IF fault \/ ~ dirExists
          THEN /\ Fail(p, IF dirExists THEN EACCES ELSE ENOENT)
               /\ UNCHANGED files
          ELSE /\ files' = OpenFile(files, loc[p].path)
               /\ pc' = [pc EXCEPT ![p] = "Copy"]
               /\ UNCHANGED <<resp, loc>>
    /\ UNCHANGED <<mimeTable, dirExists, received, uuids, req>>

\* handleFile, lines 144-150: io.Copy, then WriteHeader(201).  A copy that
\* fails has written n bytes, fewer than the container holds.
CopyStep(p) ==
    /\ pc[p] = "Copy"
    /\ \E n \in 0..Len(loc[p].container) :
          /\ files' = [files EXCEPT ![loc[p].path] = Copy(@, loc[p].container, n)]
          /\ IF n = Len(loc[p].container)
             THEN /\ resp' = [resp EXCEPT ![p] =
                                 handlePostReturn(WriteHeader(@, StatusCreated),
                                                  loc[p].via, nil)]
                  /\ pc' = [pc EXCEPT ![p] = "done"]
                  /\ UNCHANGED loc
             ELSE Fail(p, EIO)
    /\ UNCHANGED <<mimeTable, dirExists, received, uuids, req>>

(***************************************************************************)
(* response.go: the response DTO and encoding/json.                        *)
(*                                                                         *)
(* A Go string is a sequence of characters; "0xff" stands for a byte that  *)
(* is part of no UTF-8 encoding and "U+FFFD" for the replacement rune.     *)
(* JSON text is a sequence of characters.  A *FileDto is a sequence of     *)
(* length 0 (nil) or 1.                                                    *)
(***************************************************************************)
MaxUint16 == 65535

JsonDto(status, message, errorString, file) ==
    [Status |-> status, Message |-> message, ErrorString |-> errorString, File |-> file]

FileDto(name, mimeType) == [Name |-> name, MimeType |-> mimeType]

\* The struct tags of JsonDto and FileDto.
keyStatus == <<"s", "t", "a", "t", "u", "s">>
keyMessage == <<"m", "e", "s", "s", "a", "g", "e">>
keyError == <<"e", "r", "r", "o", "r">>
keyFile == <<"f", "i", "l", "e">>
keyName == <<"n", "a", "m", "e">>
keyMimeType == <<"m", "i", "m", "e", "_", "t", "y", "p", "e">>

Digits == <<"0", "1", "2", "3", "4", "5", "6", "7", "8", "9">>

\* strconv.AppendUint(n, 10).
RECURSIVE FormatUint(_)
FormatUint(n) ==
    IF n < 10 THEN <<Digits[n + 1]>> ELSE FormatUint(n \div 10) \o <<Digits[(n % 10) + 1]>>

\* The encoder's output for one character of a string: quotes and
\* backslashes are escaped, an invalid byte becomes the escape of U+FFFD.
encodeChar(c) ==
    IF c = "\"" THEN <<"\\", "\"">>
    ELSE IF c = "\\" THEN <<"\\", "\\">>
    ELSE IF c = "0xff" THEN <<"\\", "u", "f", "f", "f", "d">>
    ELSE <<c>>

RECURSIVE encodeChars(_)
encodeChars(str) ==
    IF str = <<>> THEN <<>> ELSE encodeChar(str[1]) \o encodeChars(Tail(str))

encodeString(str) == <<"\"">> \o encodeChars(str) \o <<"\"">>

\* omitempty leaving out a FileDto whose name is empty, as it would for a
\* struct that is compared with its zero value.
omitFileEmptyName(file) == file = <<>> \/ file[1].Name = <<>>

\* Whether the encoder leaves out a field tagged omitempty.
omitString(str) == str = <<>>
omitFile(file) == file = <<>>

marshalFileDto(f) ==
    <<"{">> \o encodeString(keyName) \o <<":">> \o encodeString(f.Name) \o <<",">>
            \o encodeString(keyMimeType) \o <<":">> \o encodeString(f.MimeType) \o <<"}">>

\* json.Marshal(dto) for a *JsonDto.
Marshal(dto) ==
    <<"{">> \o encodeString(keyStatus) \o <<":">> \o FormatUint(dto.Status) \o <<",">>
            \o encodeString(keyMessage) \o <<":">> \o encodeString(dto.Message)
            \o (IF omitString(dto.ErrorString) THEN <<>>
                ELSE <<",">> \o encodeString(keyError) \o <<":">> \o encodeString(dto.ErrorString))
            \o (IF omitFile(dto.File) THEN <<>>
                ELSE <<",">> \o encodeString(keyFile) \o <<":">> \o marshalFileDto(dto.File[1]))
            \o <<"}">>

\* The decoder.  A parse result is [ok, next, kind, str, num, obj]: next is
\* the index after the value, obj the members of an object in order, each
\* a pair <<key, value>>.  (White space, arrays, literals and the escapes
\* Marshal never writes are not modelled.)
ParseFailure == [ok |-> FALSE, next |-> 0, kind |-> "", str |-> <<>>, num |-> 0, obj |-> <<>>]

\* The characters of a string literal from index i on, up to the closing quote.
RECURSIVE scanString(_, _, _)
scanString(s, i, acc) ==
    IF i > Len(s) THEN ParseFailure
    ELSE IF s[i] = "\""
         THEN [ok |-> TRUE, next |-> i + 1, kind |-> "string", str |-> acc, num |-> 0,
               obj |-> <<>>]
    ELSE IF s[i] = "\\"
         THEN IF i + 1 > Len(s) THEN ParseFailure
              ELSE IF s[i + 1] \in {"\"", "\\"} THEN scanString(s, i + 2, Append(acc, s[i + 1]))
              ELSE IF s[i + 1] = "u" /\ i + 5 <= Len(s)
                      /\ SubSeq(s, i + 2, i + 5) = <<"f", "f", "f", "d">>
                   THEN scanString(s, i + 6, Append(acc, "U+FFFD"))
              ELSE ParseFailure
    ELSE IF s[i] = "0xff" THEN scanString(s, i + 1, Append(acc, "U+FFFD"))
    ELSE scanString(s, i + 1, Append(acc, s[i]))

DigitValue(c) == (CHOOSE d \in 1..10 : Digits[d] = c) - 1
IsDigit(c) == \E d \in 1..10 : Digits[d] = c

RECURSIVE scanNumber(_, _, _)
scanNumber(s, i, acc) ==
    IF i <= Len(s) /\ IsDigit(s[i])
    THEN scanNumber(s, i + 1, acc * 10 + DigitValue(s[i]))
    ELSE [ok |-> TRUE, next |-> i, kind |-> "number", str |-> <<>>, num |-> acc, obj |-> <<>>]

RECURSIVE parseValue(_, _)
RECURSIVE scanMembers(_, _, _)

\* The members of an object from index i on, up to the closing brace.
scanMembers(s, i, acc) ==
    LET value(k, v) ==
            IF ~ v.ok \/ v.next > Len(s) THEN ParseFailure
            ELSE IF s[v.next] = "," THEN scanMembers(s, v.next + 1, Append(acc, <<k.str, v>>))
            ELSE IF s[v.next] = "}"
                 THEN [ok |-> TRUE, next |-> v.next + 1, kind |-> "object", str |-> <<>>,
                       num |-> 0, obj |-> Append(acc, <<k.str, v>>)]
            ELSE ParseFailure
        key(k) ==
            value(k, IF k.ok /\ k.next <= Len(s) /\ s[k.next] = ":"
                     THEN parseValue(s, k.next + 1) ELSE ParseFailure)
    IN  key(IF i <= Len(s) /\ s[i] = "\"" THEN scanString(s, i + 1, <<>>) ELSE ParseFailure)

parseValue(s, i) ==
    IF i > Len(s) THEN ParseFailure
    ELSE IF s[i] = "\"" THEN scanString(s, i + 1, <<>>)
    ELSE IF IsDigit(s[i]) THEN scanNumber(s, i, 0)
    ELSE IF s[i] = "{"
         THEN IF i + 1 <= Len(s) /\ s[i + 1] = "}"
              THEN [ok |-> TRUE, next |-> i + 2, kind |-> "object", str |-> <<>>, num |-> 0,
                    obj |-> <<>>]
              ELSE scanMembers(s, i + 1, <<>>)
    ELSE ParseFailure

ErrSyntax == "invalid character looking for beginning of value"
ErrUnmarshalType == "json: cannot unmarshal value into Go struct field"

\* The decoder storing the members of an object into a FileDto.
RECURSIVE decodeFileDto(_, _)
decodeFileDto(members, f) ==
    LET member(key, v, rest) ==
            IF key = keyName
            THEN IF v.kind # "string" THEN [file |-> f, err |-> ErrUnmarshalType]
                 ELSE decodeFileDto(rest, [f EXCEPT !.Name = v.str])
            ELSE IF key = keyMimeType
                 THEN IF v.kind # "string" THEN [file |-> f, err |-> ErrUnmarshalType]
                      ELSE decodeFileDto(rest, [f EXCEPT !.MimeType = v.str])
            ELSE decodeFileDto(rest, f)
    IN  IF members = <<>> THEN [file |-> f, err |-> nil]
        ELSE member(members[1][1], members[1][2], Tail(members))

\* The decoder storing the members of an object into a JsonDto.  A file
\* member allocates a FileDto when the pointer is nil.
RECURSIVE decodeJsonDto(_, _)
decodeJsonDto(members, dto) ==
    LET file(v, rest, f) ==
            IF v.kind # "object" \/ f.err # nil THEN [dto |-> dto, err |-> ErrUnmarshalType]
            ELSE decodeJsonDto(rest, [dto EXCEPT !.File = <<f.file>>])
        member(key, v, rest) ==
            IF key = keyStatus
            THEN IF v.kind # "number" \/ v.num > MaxUint16
                 THEN [dto |-> dto, err |-> ErrUnmarshalType]
                 ELSE decodeJsonDto(rest, [dto EXCEPT !.Status = v.num])
            ELSE IF key = keyMessage
                 THEN IF v.kind # "string" THEN [dto |-> dto, err |-> ErrUnmarshalType]
                      ELSE decodeJsonDto(rest, [dto EXCEPT !.Message = v.str])
            ELSE IF key = keyError
                 THEN IF v.kind # "string" THEN [dto |-> dto, err |-> ErrUnmarshalType]
                      ELSE decodeJsonDto(rest, [dto EXCEPT !.ErrorString = v.str])
            ELSE IF key = keyFile
                 THEN file(v, rest,
                           decodeFileDto(v.obj, IF dto.File = <<>> THEN FileDto(<<>>, <<>>)
                                                ELSE dto.File[1]))
            ELSE decodeJsonDto(rest, dto)
    IN  IF members = <<>> THEN [dto |-> dto, err |-> nil]
        ELSE member(members[1][1], members[1][2], Tail(members))

\* json.Unmarshal(data, got) for got = &JsonDto{}.
Unmarshal(data) ==
    LET zero == JsonDto(0, <<>>, <<>>, <<>>)
        decode(v) ==
            IF ~ v.ok \/ v.next # Len(data) + 1 THEN [dto |-> zero, err |-> ErrSyntax]
            ELSE IF v.kind # "object" THEN [dto |-> zero, err |-> ErrUnmarshalType]
            ELSE decodeJsonDto(v.obj, zero)
    IN  decode(parseValue(data, 1))

(***************************************************************************)
(* response.go: NewFileDto, with path/filepath and mime.TypeByExtension.   *)
(* goos is the operating system the program is built for: "windows" has    *)
(* the separators \ and /, every other one ("linux") has /.  Volume names  *)
(* of Windows paths are not modelled: no file name of the model has one.   *)
(***************************************************************************)
IsPathSeparator(goos, c) == c = "/" \/ (goos = "windows" /\ c = "\\")

\* filepath.Separator.
Separator(goos) == IF goos = "windows" THEN "\\" ELSE "/"

\* The index of the last separator of path, 0 when it has none.
LastSeparator(goos, path) ==
    IF \E i \in 1..Len(path) : IsPathSeparator(goos, path[i])
    THEN CHOOSE i \in 1..Len(path) :
            /\ IsPathSeparator(goos, path[i])
            /\ \A j \in (i + 1)..Len(path) : ~ IsPathSeparator(goos, path[j])
    ELSE 0

RECURSIVE stripTrailingSeparators(_, _)
stripTrailingSeparators(goos, path) ==
    IF path # <<>> /\ IsPathSeparator(goos, path[Len(path)])
    THEN stripTrailingSeparators(goos, SubSeq(path, 1, Len(path) - 1))
    ELSE path

\* filepath.Base: the last element of path, trailing separators removed;
\* "." for an empty path, the separator for a path of separators only.
Base(goos, path) ==
    LET named(p) == IF p = <<>> THEN <<Separator(goos)>> ELSE p
        cut(p) == named(SubSeq(p, LastSeparator(goos, p) + 1, Len(p)))
    IN  IF path = <<>> THEN <<".">> ELSE cut(stripTrailingSeparators(goos, path))

\* The elements of path between its separators, empty ones left out.
RECURSIVE Elements(_, _, _)
Elements(goos, path, elem) ==
    IF path = <<>> THEN (IF elem = <<>> THEN <<>> ELSE <<elem>>)
    ELSE IF IsPathSeparator(goos, path[1])
         THEN (IF elem = <<>> THEN <<>> ELSE <<elem>>) \o Elements(goos, Tail(path), <<>>)
    ELSE Elements(goos, Tail(path), Append(elem, path[1]))

\* filepath.Clean, element by element: "." is dropped, ".." removes the
\* element before it, is dropped at the root and kept otherwise.
RECURSIVE cleanElements(_, _, _)
cleanElements(elems, out, rooted) ==
    LET dot == <<".">>
        dotdot == <<".", ".">>
        step(e, rest) ==
            IF e = dot THEN cleanElements(rest, out, rooted)
            ELSE IF e = dotdot
                 THEN IF out # <<>> /\ out[Len(out)] # dotdot
                      THEN cleanElements(rest, SubSeq(out, 1, Len(out) - 1), rooted)
                      ELSE IF rooted THEN cleanElements(rest, out, rooted)
                      ELSE cleanElements(rest, Append(out, e), rooted)
            ELSE cleanElements(rest, Append(out, e), rooted)
    IN  IF elems = <<>> THEN out ELSE step(elems[1], Tail(elems))

RECURSIVE joinElements(_, _)
joinElements(goos, elems) ==
    IF elems = <<>> THEN <<>>
    ELSE IF Len(elems) = 1 THEN elems[1]
    ELSE elems[1] \o <<Separator(goos)>> \o joinElements(goos, Tail(elems))

\* filepath.Clean: the shortest path name equivalent to path.
Clean(goos, path) ==
    LET rooted == path # <<>> /\ IsPathSeparator(goos, path[1])
        joined(out) ==
            IF rooted THEN <<Separator(goos)>> \o joinElements(goos, out)
            ELSE IF out = <<>> THEN <<".">>
            ELSE joinElements(goos, out)
    IN  joined(cleanElements(Elements(goos, path, <<>>), <<>>, rooted))

\* filepath.Ext: the suffix of the last element of path from its last dot
\* on, empty when it has no dot.
Ext(goos, path) ==
    LET last == LastSeparator(goos, path)
    IN  IF \E i \in (last + 1)..Len(path) : path[i] = "."
        THEN SubSeq(path,
                    CHOOSE i \in (last + 1)..Len(path) :
                        /\ path[i] = "."
                        /\ \A j \in (i + 1)..Len(path) : path[j] # ".",
                    Len(path))
        ELSE <<>>

\* mime.TypeByExtension on the table of the host: the type ext is
\* registered for, with charset=utf-8 for a text type, empty when ext is
\* registered for none.  (The lower-case retry is not modelled: every
\* extension of the model is lower case.)
TypeByExtension(table, ext) ==
    LET text == <<"t", "e", "x", "t", "/">>
        charset == <<";", " ", "c", "h", "a", "r", "s", "e", "t", "=", "u", "t", "f", "-", "8">>
        types == {t \in DOMAIN table : \E i \in 1..Len(table[t]) : table[t][i] = ext}
        typed(t) == IF HasPrefix(t, text) THEN t \o charset ELSE t
    IN  IF types = {} THEN <<>> ELSE typed(CHOOSE t \in types : TRUE)

\* NewFileDto, lines 38-42.
NewFileDto(goos, table, fileName) ==
    LET dto(name) == FileDto(name, TypeByExtension(table, Ext(goos, name)))
    IN  dto(Clean(goos, Base(goos, fileName)))

\* Error without its call of WriteHeader: the status is left to the first
\* write.
ErrorNoWriteHeader(w, error, code) ==
    [contentType |-> IF w.codes = <<>> THEN "application/json" ELSE w.contentType,
     codes |-> w.codes,
     body |-> Append(w.body, Marshal(JsonDto(code, <<>>, error, <<>>)))]

\* response.Error, lines 46-59: sets the JSON Content-Type (it takes effect
\* only before the first WriteHeader), the status code, and prints the
\* marshalled envelope of the code and the error string.  (json.Marshal
\* returns no error for a *JsonDto, so the panic of line 56 is not reached.)
Error(w, error, code) ==
    [contentType |-> IF w.codes = <<>> THEN "application/json" ELSE w.contentType,
     codes |-> Append(w.codes, code),
     body |-> Append(w.body, Marshal(JsonDto(code, <<>>, error, <<>>)))]

(***************************************************************************)
(* Marshalling a DTO and unmarshalling the result, as the tests of the     *)
(* response package do (marshalUnmarshalPropertySpec).                     *)
(***************************************************************************)
VARIABLES
    jpc,    \* "start", "marshalled", "unmarshalled"
    jdto,   \* the DTO that is marshalled
    jdata,  \* the JSON text json.Marshal returned
    jgot,   \* what json.Unmarshal returned: the DTO it filled and its error
    jw,     \* the ResponseWriter response.Error writes to
    GOOS,   \* the operating system the program is built for
    jname   \* the raw file name NewFileDto is called with

jsonVars == <<jpc, jdto, jdata, jgot, jw, GOOS, jname>>
vars ==
    <<mimeTable, dirExists, files, received, uuids, pc, req, resp, loc,
      jpc, jdto, jdata, jgot, jw, GOOS, jname>>

Chars == {"a", "\"", "0xff"}
Strings(n) == UNION {[1..k -> Chars] : k \in 0..n}
Statuses == {0, StatusCreated, MaxUint16}

Dtos ==
    {JsonDto(s, m, e, f) :
        s \in Statuses, m \in Strings(MaxStrLen), e \in Strings(MaxStrLen),
        f \in {<<>>} \cup {<<FileDto(n, t)>> : n \in Strings(MaxFileStrLen),
                                              t \in Strings(MaxFileStrLen)}}

NoJson ==
    /\ jpc = "start"
    /\ jdto = JsonDto(0, <<>>, <<>>, <<>>)
    /\ jdata = <<>>
    /\ jgot = [dto |-> JsonDto(0, <<>>, <<>>, <<>>), err |-> nil]
    /\ jw = NewResponse
    /\ GOOS = "linux"
    /\ jname = <<>>

MarshalStep ==
    /\ jpc = "start"
    /\ jdata' = Marshal(jdto)
    /\ jpc' = "marshalled"
    /\ UNCHANGED <<jdto, jgot, jw, GOOS, jname>>
    /\ UNCHANGED serverVars

UnmarshalStep ==
    /\ jpc = "marshalled"
    /\ jgot' = Unmarshal(jdata)
    /\ jpc' = "unmarshalled"
    /\ UNCHANGED <<jdto, jdata, jw, GOOS, jname>>
    /\ UNCHANGED serverVars

\* The status codes and error strings response.Error is called with, as
\* the reference DTO of errorPropertySpec: codes of [100, 511], both ends
\* included.
ErrorCodes ==
    {StatusContinue, StatusCreated, StatusBadRequest, StatusMethodNotAllowed,
     StatusUnsupportedMediaType, StatusInternalServerError,
     StatusNetworkAuthenticationRequired}
ErrorDtos == {JsonDto(s, <<>>, e, <<>>) : s \in ErrorCodes, e \in Strings(MaxErrorLen)}

\* errorPropertySpec, lines 303-304: response.Error on a new recorder.
ErrorStep ==
    /\ jpc = "start"
    /\ jw' = Error(jw, jdto.ErrorString, jdto.Status)
    /\ jpc' = "written"
    /\ UNCHANGED <<jdto, jdata, jgot, GOOS, jname>>
    /\ UNCHANGED serverVars

\* errorPropertySpec, lines 309-310: json.Unmarshal of the recorded body.
UnmarshalBodyStep ==
    /\ jpc = "written"
    /\ jdata' = Flatten(jw.body)
    /\ jgot' = Unmarshal(Flatten(jw.body))
    /\ jpc' = "decoded"
    /\ UNCHANGED <<jdto, jw, GOOS, jname>>
    /\ UNCHANGED serverVars

\* The pieces of raw file names: the two separator styles, a dot, a stem
\* and a registered extension.
NamePieces == {<<"/">>, <<"\\">>, <<".">>, <<"a">>, dotJpg}

RECURSIVE NamesOf(_)
NamesOf(n) ==
    IF n = 0 THEN {<<>>}
    ELSE NamesOf(n - 1) \cup {name \o piece : name \in NamesOf(n - 1), piece \in NamePieces}

\* The raw file names NewFileDto is called with.  A name that starts with
\* two separators is left out: on Windows it starts a volume name.
FileNames ==
    {name \in NamesOf(MaxNameParts) :
        ~ (Len(name) >= 2 /\ name[1] \in {"/", "\\"} /\ name[2] \in {"/", "\\"})}

\* TestNewFileDto, line 230: response.NewFileDto(path).
NewFileDtoStep ==
    /\ jpc = "start"
    /\ jdto' = [jdto EXCEPT !.File = <<NewFileDto(GOOS, mimeTable, jname)>>]
    /\ jpc' = "derived"
    /\ UNCHANGED <<jdata, jgot, jw, GOOS, jname>>
    /\ UNCHANGED serverVars

(***************************************************************************)
(* The specifications.                                                     *)
(***************************************************************************)
\* The server, its goroutines running concurrently.
Init == InitServer /\ NoJson

Next ==
    \/ \E p \in Procs, r \in Requests : Receive(p, r) /\ UNCHANGED jsonVars
    \/ \E p \in Procs : Serve(p) /\ UNCHANGED jsonVars
    \/ \E p \in Procs : Stat(p) /\ UNCHANGED jsonVars
    \/ \E p \in Procs : MkdirStep(p) /\ UNCHANGED jsonVars
    \/ \E p \in Procs : OpenFileStep(p) /\ UNCHANGED jsonVars
    \/ \E p \in Procs : CopyStep(p) /\ UNCHANGED jsonVars

Spec == Init /\ [][Next]_vars

\* The server with one connection: a request is received when the one
\* before it has been answered, requests in succession.
NextSeq ==
    \/ \E p \in {"g1"}, r \in Requests : Receive(p, r) /\ UNCHANGED jsonVars
    \/ \E p \in Procs : Serve(p) /\ UNCHANGED jsonVars
    \/ \E p \in Procs : Stat(p) /\ UNCHANGED jsonVars
    \/ \E p \in Procs : MkdirStep(p) /\ UNCHANGED jsonVars
    \/ \E p \in Procs : OpenFileStep(p) /\ UNCHANGED jsonVars
    \/ \E p \in Procs : CopyStep(p) /\ UNCHANGED jsonVars

SpecSeq == Init /\ [][NextSeq]_vars

\* One DTO marshalled and unmarshalled.
InitJson ==
    /\ InitServer
    /\ mimeTable = builtinTable
    /\ jpc = "start"
    /\ jdto \in Dtos
    /\ jdata = <<>>
    /\ jgot = [dto |-> JsonDto(0, <<>>, <<>>, <<>>), err |-> nil]
    /\ jw = NewResponse
    /\ GOOS = "linux"
    /\ jname = <<>>

NextJson == MarshalStep \/ UnmarshalStep

SpecJson == InitJson /\ [][NextJson]_vars

\* One call of NewFileDto, on a build for either operating system.
InitFile ==
    /\ InitServer
    /\ jpc = "start"
    /\ jdto = JsonDto(0, <<>>, <<>>, <<>>)
    /\ jdata = <<>>
    /\ jgot = [dto |-> JsonDto(0, <<>>, <<>>, <<>>), err |-> nil]
    /\ jw = NewResponse
    /\ GOOS \in {"linux", "windows"}
    /\ jname \in FileNames

NextFile == NewFileDtoStep

SpecFile == InitFile /\ [][NextFile]_vars

\* One call of response.Error and the decoding of what it wrote.
InitError ==
    /\ InitServer
    /\ mimeTable = builtinTable
    /\ jpc = "start"
    /\ jdto \in ErrorDtos
    /\ jdata = <<>>
    /\ jgot = [dto |-> JsonDto(0, <<>>, <<>>, <<>>), err |-> nil]
    /\ jw = NewResponse
    /\ GOOS = "linux"
    /\ jname = <<>>

NextError == ErrorStep \/ UnmarshalBodyStep

SpecError == InitError /\ [][NextError]_vars

(***************************************************************************)
(* Properties.                                                             *)
(***************************************************************************)
\* The envelope the body of a response decodes to.
Envelope(w) == Unmarshal(Flatten(w.body))

IOErrors == {EEXIST, EACCES, EIO, ENOENT}

Done(p) == pc[p] = "done"
Post(p) == req[p].method = "POST"
\* The request of p has been answered and its write to disk succeeded.
Written(p) == Done(p) /\ Post(p) /\ loc[p].path # "" /\ loc[p].err = nil
\* The request of p has been answered with a failure.
Failed(p) == Done(p) /\ Post(p) /\ loc[p].err # nil

\* C1: a request whose method is not POST is answered in one step with 405
\* Method Not Allowed, and that step leaves the upload directory and every
\* file as they were.
C1_MethodGating ==
    [][\A p \in Procs :
          (pc[p] = "ApiEndpoint" /\ req[p].method # "POST" /\ pc'[p] # pc[p])
              => /\ pc'[p] = "done"
                 /\ resp'[p].codes = <<StatusMethodNotAllowed>>
                 /\ dirExists' = dirExists
                 /\ files' = files]_vars

\* A GET has been answered 405 after an upload had created the directory
\* and a file.
C1_Witness ==
    \E p \in Procs :
        /\ Done(p) /\ req[p].method = "GET"
        /\ Status(resp[p]) = StatusMethodNotAllowed
        /\ dirExists /\ DOMAIN files # {}

\* C2: after a form upload has succeeded, the file at uploadDir + its file
\* name holds exactly the content of its file part, whatever was uploaded
\* before.
C2_FormUploadHoldsContent ==
    \A p \in Procs :
        (Written(p) /\ loc[p].via = "handleForm")
            => /\ Status(resp[p]) = StatusCreated
               /\ loc[p].path = uploadDir \o FormFile(ParseMultipartForm(req[p]), formName).Filename
               /\ loc[p].path \in DOMAIN files
               /\ files[loc[p].path] = FormFile(ParseMultipartForm(req[p]), formName).content

\* A raw text/plain POST that met no file system error.
TextPlainUpload(p) ==
    /\ Done(p) /\ Post(p)
    /\ req[p].contentType = ctTextPlain
    /\ loc[p].err \notin IOErrors

C4_SuccessEnvelope ==
    \A p \in Procs :
        Written(p)
            => /\ Status(resp[p]) = StatusCreated
               /\ Envelope(resp[p]).err = nil
               /\ Envelope(resp[p]).dto.Status = StatusCreated
               /\ Envelope(resp[p]).dto.ErrorString = <<>>
               /\ Envelope(resp[p]).dto.File # <<>>
               /\ uploadDir \o Str(Envelope(resp[p]).dto.File[1].Name) = loc[p].path

\* C5: when a POST fails, the body of the response is an envelope whose
\* status is the status code sent, whose error text is that of the
\* failure, and that has no file info.
C5_FailureEnvelope ==
    \A p \in Procs :
        Failed(p)
            => /\ Envelope(resp[p]).err = nil
               /\ Envelope(resp[p]).dto.Status = Status(resp[p])
               /\ Str(Envelope(resp[p]).dto.ErrorString) = loc[p].err
               /\ Envelope(resp[p]).dto.File = <<>>

\* C6: a POST writes one status code and at most one error message to its
\* response: once a handler has written a failure, nothing else is written.
C6_OneErrorWrite ==
    \A p \in Procs :
        Post(p) => Len(resp[p].codes) <= 1 /\ Len(resp[p].body) <= 1

\* The Content-Type of the request of p is no multipart/form-data and no
\* extension is registered for it (the lookup fails or finds none).
Unmappable(p) ==
    /\ ~ HasPrefix(req[p].contentType, multipartFormData)
    /\ ExtensionsByType(mimeTable, req[p].contentType).exts = <<>>

\* C7: a POST whose Content-Type is neither multipart/form-data nor mapped
\* to an extension is answered 415 Unsupported Media Type and writes no file.
C7_UnmappableIsUnsupported ==
    \A p \in Procs :
        (Post(p) /\ Unmappable(p))
            => /\ pc[p] \in {"ApiEndpoint", "done"}
               /\ Done(p) => Status(resp[p]) = StatusUnsupportedMediaType /\ loc[p].path = ""

\* C8: no upload fails because another request created the upload directory
\* first.
C8_ConcurrentMkdir ==
    \A p \in Procs : Failed(p) => loc[p].err # EEXIST

\* C9: with requests served in succession, createUploadDir never fails on
\* a directory that exists: it calls Mkdir only while the directory is
\* absent, so the first upload creates the directory and a later one
\* leaves it as it is, and the directory exists when it has returned.
C9_SuccessiveMkdir ==
    \A p \in Procs :
        /\ loc[p].err # EEXIST
        /\ pc[p] = "Mkdir" => ~ dirExists /\ loc[p].notExist
        /\ pc[p] \in {"OpenFile", "Copy"} => dirExists
        /\ Written(p) => dirExists

\* The second upload has passed createUploadDir without calling Mkdir, the
\* first one having created the directory and stored its file.
C9_Witness ==
    \E p \in Procs :
        /\ received = 2
        /\ pc[p] = "OpenFile"
        /\ ~ loc[p].notExist
        /\ dirExists /\ DOMAIN files # {}

ValidUTF8(str) == \A i \in 1..Len(str) : str[i] # "0xff"

ValidDto(dto) ==
    /\ ValidUTF8(dto.Message) /\ ValidUTF8(dto.ErrorString)
    /\ dto.File # <<>> => ValidUTF8(dto.File[1].Name) /\ ValidUTF8(dto.File[1].MimeType)

\* C10 as stated: unmarshalling the JSON of any DTO gives the DTO back,
\* field for field.
C10_RoundTrip ==
    jpc = "unmarshalled" => jgot.err = nil /\ jgot.dto = jdto

\* C10, amended: unmarshalling the JSON of a DTO whose strings are valid
\* UTF-8 gives the DTO back, field for field, an absent error or file
\* staying absent and a present one present.
C10_RoundTripValidUTF8 ==
    (jpc = "unmarshalled" /\ ValidDto(jdto)) => jgot.err = nil /\ jgot.dto = jdto

\* A DTO with a quote in its message, no error and a file whose name and
\* MIME type are empty has come back from the round trip.
C10_Witness ==
    /\ jpc = "unmarshalled"
    /\ jdto = JsonDto(MaxUint16, <<"\"">>, <<>>, <<FileDto(<<>>, <<>>)>>)
    /\ jgot.dto = jdto

\* The subtype token of a Content-Type: what follows the slash of its media
\* type, its parameters left out.
SubtypeToken(contentType) ==
    LET mt == ParseMediaType(contentType).mediatype
    IN  SubSeq(mt, IndexByte(mt, "/") + 1, Len(mt))

\* The extension the raw-body path is to choose among the candidates: the
\* first one that ends with the subtype token, else the first one, none
\* when there are no candidates.
PreferredExt(contentType, candidates) ==
    LET matches == {i \in 1..Len(candidates) :
                        HasSuffix(candidates[i], SubtypeToken(contentType))}
    IN  IF Len(candidates) = 0 THEN <<>>
        ELSE IF matches # {}
             THEN candidates[CHOOSE i \in matches : \A j \in matches : i <= j]
             ELSE candidates[1]

\* The raw-body path has chosen the extension of the upload of p.
RawExtChosen(p) ==
    /\ pc[p] \notin {"idle", "ApiEndpoint"}
    /\ Post(p)
    /\ loc[p].via = "handleOther"
    /\ loc[p].uuid # ""

\* C15: on the raw-body path the extension of the file is the first
\* extension registered for the declared Content-Type that ends with its
\* subtype token, else the first registered one, also when the Content-Type
\* carries parameters; it is empty when none is registered.
C15_PreferredExtension ==
    \A p \in Procs :
        RawExtChosen(p)
            => /\ loc[p].ext =
                    PreferredExt(req[p].contentType,
                                 ExtensionsByType(mimeTable, req[p].contentType).exts)
               /\ loc[p].path = uploadDir \o loc[p].uuid \o Str(loc[p].ext)

\* The handler that may persist a request with the given Content-Type.
PathOf(contentType) ==
    IF HasPrefix(contentType, multipartFormData) THEN "handleForm" ELSE "handleOther"

InHandleFile(p) == pc[p] \in {"createUploadDir", "Mkdir", "OpenFile", "Copy"}

\* C13: the form path and the raw-body path exclude each other.  A request
\* enters handleFile only through the form path when its Content-Type
\* begins with multipart/form-data and only through the raw-body path
\* otherwise; while it is in handleFile its handler and its path stay the
\* same; and a step that changes the files is a step of one such request
\* and changes the file at its path only, so a request writes one file.
C13_PathsExclusive ==
    [][/\ \A p \in Procs :
            /\ (pc[p] = "ApiEndpoint" /\ InHandleFile(p)')
                  => /\ Post(p)
                     /\ loc'[p].via = PathOf(req[p].contentType)
                     /\ loc'[p].path # ""
            /\ InHandleFile(p)
                  => /\ loc'[p].via = loc[p].via
                     /\ loc'[p].path = loc[p].path
                     /\ req'[p] = req[p]
       /\ files' # files
            => \E p \in Procs :
                  /\ pc[p] \in {"OpenFile", "Copy"} /\ pc'[p] # pc[p]
                  /\ loc[p].via = PathOf(req[p].contentType)
                  /\ DOMAIN files' = DOMAIN files \cup {loc[p].path}
                  /\ \A f \in DOMAIN files \ {loc[p].path} : files'[f] = files[f]]_vars

\* A raw upload has been stored by the raw-body path next to the file an
\* earlier form upload had stored.
C13_Witness ==
    \E p \in Procs :
        /\ Written(p)
        /\ ~ HasPrefix(req[p].contentType, multipartFormData)
        /\ loc[p].via = "handleOther"
        /\ DOMAIN files = {uploadDir \o "test.txt", loc[p].path}
        /\ loc[p].path # uploadDir \o "test.txt"

\* C14: on the form path a failure before persistence leaves the file
\* system as it was.  The step that serves a POST whose Content-Type begins
\* with multipart/form-data answers 400 Bad Request when the body fails to
\* parse and 500 Internal Server Error when the parsed form lacks the field
\* "file"; in both cases the request is over, the upload directory is not
\* created and no file is created or modified.
C14_FormFailureFrame ==
    [][\A p \in Procs :
          (/\ pc[p] = "ApiEndpoint" /\ pc'[p] # pc[p]
           /\ Post(p)
           /\ HasPrefix(req[p].contentType, multipartFormData)
           /\ \/ ParseMultipartForm(req[p]).err # nil
              \/ ~ \E i \in 1..Len(ParseMultipartForm(req[p]).file) :
                        ParseMultipartForm(req[p]).file[i].field = formName)
              => /\ Status(resp'[p]) =
                        IF ParseMultipartForm(req[p]).err # nil
                        THEN StatusBadRequest ELSE StatusInternalServerError
                 /\ pc'[p] = "done"
                 /\ loc'[p].path = ""
                 /\ dirExists' = dirExists
                 /\ files' = files]_vars

\* A form without the field "file" has been answered 500 after an upload
\* had created the directory and a file, and the file is as it was.
C14_Witness ==
    \E p \in Procs :
        /\ Done(p) /\ Post(p)
        /\ req[p].contentType = ctMultipart /\ req[p].body = formOther
        /\ Status(resp[p]) = StatusInternalServerError
        /\ loc[p].err = ErrMissingFile
        /\ dirExists
        /\ DOMAIN files = {uploadDir \o "test.txt"}
        /\ files[uploadDir \o "test.txt"] = <<"h", "i">>

\* response.Error has written to the recorder and the body has been decoded.
ErrorDecoded == jpc = "decoded"

\* What response.Error is to leave behind for the code and error string of
\* jdto: the status code, the JSON Content-Type, and a body that decodes to
\* the envelope of the two, with empty message and no file.
ErrorWritten ==
    /\ Status(jw) = jdto.Status
    /\ jw.codes = <<jdto.Status>>
    /\ jw.contentType = "application/json"
    /\ jgot.err = nil
    /\ jgot.dto = JsonDto(jdto.Status, <<>>, jdto.ErrorString, <<>>)

\* C11 as stated: for every status code of [100, 511] and every error
\* string, response.Error sets exactly that status code and the JSON
\* Content-Type and writes a body that decodes to the envelope of the code
\* and the error string, with empty message and no file.
C11_ErrorEnvelope == ErrorDecoded => ErrorWritten

\* C11, amended: the same for every error string that is valid UTF-8.
C11_ErrorEnvelopeValidUTF8 ==
    (ErrorDecoded /\ ValidUTF8(jdto.ErrorString)) => ErrorWritten

\* response.Error has answered 511 with an error string that needs
\* escaping, and the body has decoded to the same code and string.
C11_Witness ==
    /\ ErrorDecoded
    /\ jdto.Status = StatusNetworkAuthenticationRequired
    /\ jdto.ErrorString = <<"\"", "a">>
    /\ jgot.dto = jdto
    /\ jw.codes = <<StatusNetworkAuthenticationRequired>>

\* The directory separators of either style.
StyleSeparators == {"/", "\\"}

RECURSIVE DropTrailingSeparators(_)
DropTrailingSeparators(raw) ==
    IF raw # <<>> /\ raw[Len(raw)] \in StyleSeparators
    THEN DropTrailingSeparators(SubSeq(raw, 1, Len(raw) - 1))
    ELSE raw

\* The final component of a raw file name whose directories are separated
\* in either style: what follows its last / or \, the separators at its
\* end left out; empty when the name has no component.
FinalComponent(raw) ==
    LET r == DropTrailingSeparators(raw)
        seps == {i \in 1..Len(r) : r[i] \in StyleSeparators}
        last == IF seps = {} THEN 0 ELSE CHOOSE i \in seps : \A j \in seps : j <= i
    IN  SubSeq(r, last + 1, Len(r))

\* The extension of a name: its suffix from its last dot on.
ExtensionOf(name) ==
    LET dots == {i \in 1..Len(name) : name[i] = "."}
    IN  IF dots = {} THEN <<>>
        ELSE SubSeq(name, CHOOSE i \in dots : \A j \in dots : j <= i, Len(name))

\* NewFileDto has derived the FileDto of a raw file name that has a final
\* component.
FileDerived == jpc = "derived" /\ FinalComponent(jname) # <<>>

\* C12: for every raw file name, with directories separated by / or by \,
\* NewFileDto yields a name without directory component, the final
\* component of the raw name, and the MIME type registered for the
\* extension of that name, empty when none is.
C12_NameHasNoDirectory ==
    FileDerived
        => /\ \A i \in 1..Len(jdto.File[1].Name) : jdto.File[1].Name[i] \notin StyleSeparators
           /\ jdto.File[1].Name = FinalComponent(jname)
           /\ jdto.File[1].MimeType =
                  TypeByExtension(mimeTable, ExtensionOf(jdto.File[1].Name))

====
